---- MODULE Spec2Model ----
(***************************************************************************)
(* Model of the WSE processing toolkit: wse_processing/calculations.py,    *)
(* wse_processing/qaqc.py and the pipeline of app/app.py (main).           *)
(*                                                                         *)
(* Tables are records [columns, rows]; a row is a record with one field    *)
(* per ColumnNames constant.  Timestamps are integers (minutes), a missing *)
(* value (NaN / NaT / None) is Null.  Pressures and temperatures of the    *)
(* input files are naturals in the input unit.                             *)
(*                                                                         *)
(* Exact decimal arithmetic: a number is a vector of four integer limbs    *)
(* <<a, b, c, d>> standing for a + b*10^-5 + c*10^-6 + d*10^-9, and a      *)
(* quotient is [kind, num, den] standing for num / (den * 10^-5).          *)
(***************************************************************************)
EXTENDS Integers, Sequences, FiniteSets

VARIABLES
    pc,              \* position in main(): app.py
    ui,              \* sidebar widget values and column selections
    water,           \* uploaded water logger table (raw rows)
    baro,            \* uploaded barometric logger table (raw rows)
    config,          \* ProcessingConfig
    merged,          \* table returned by compute_wse / combined with history
    error,           \* exception raised, "none" when none
    history,         \* optional historical table, NoTable when absent
    qaqc_config,     \* QAQCConfig
    flagged_shifts,  \* table returned by flag_shifts
    flagged_temp,    \* table returned by flag_temperature_outliers
    daily,           \* daily summary
    weekly           \* weekly summary

vars == <<pc, ui, water, baro, config, merged, error, history, qaqc_config,
          flagged_shifts, flagged_temp, daily, weekly>>

----------------------------------------------------------------------------
(* Bounds of the model *)

MaxWater == 2
MaxBaro == 2
MaxTime == 2
MaxHistory == 2
MaxRows == 4
MaxSumRows == 3
TicksPerDay == 2

----------------------------------------------------------------------------
(* Values *)

\* NaN / NaT / None
Null == -1

\* a raw timestamp cell that pd.to_datetime cannot parse
Unparseable == -2

NoTable == [columns |-> {}, rows |-> <<>>]
NoConfig == [reference_datum |-> 0, fluid_density |-> 0, pressure_units |-> "",
             merge_tolerance |-> 0]
NoQaqc == [shift_threshold |-> 0, temperature_threshold |-> Null]

GRAVITY == 980665
DaysPerWeek == 7
KPA_TO_PASCAL == <<1000, 0, 0, 0>>
PSI_TO_PASCAL == <<6894, 0, 757293, 168>>

TIMESTAMP == "timestamp"
WATER_PRESSURE == "water_pressure"
BARO_PRESSURE == "barometric_pressure"
GAUGE_PRESSURE == "gauge_pressure"
WATER_TEMPERATURE == "water_temperature"
AIR_TEMPERATURE == "air_temperature"
WATER_DEPTH == "water_depth_m"
WSE == "water_surface_elevation"

SeqsUpTo(S, n) == UNION {[1..k -> S] : k \in 0..n}

Range(s) == {s[i] : i \in 1..Len(s)}

----------------------------------------------------------------------------
(* Decimal arithmetic *)

Scale(k, v) == [i \in 1..4 |-> k * v[i]]

\* numpy float division: x / 0 is inf or -inf by the sign of x, 0 / 0 is nan
Divide(num, den) ==
    IF den # 0 THEN [kind |-> "finite", num |-> num, den |-> den]
    ELSE IF \A i \in 1..4 : num[i] = 0 THEN [kind |-> "nan", num |-> num, den |-> 0]
    ELSE IF \E i \in 1..4 : num[i] < 0 THEN [kind |-> "-inf", num |-> num, den |-> 0]
    ELSE [kind |-> "inf", num |-> num, den |-> 0]

\* k + q for an integer k
AddInt(k, q) ==
    IF q.kind = "finite"
    THEN [q EXCEPT !.num = [q.num EXCEPT ![2] = q.num[2] + k * q.den]]
    ELSE q

----------------------------------------------------------------------------
(* calculations.py *)

Lower(units) ==
    CASE units = "kPa" -> "kpa"
      [] units = "PSI" -> "psi"
      [] OTHER -> units

SupportedUnit(units) == Lower(units) \in {"kpa", "psi"}

\* faulty variant: the unit is ignored, every reading is taken as kPa
ToPascalIgnoringUnit(gauge, units) == Scale(gauge, KPA_TO_PASCAL)

ToPascal(gauge, units) ==
    IF Lower(units) = "kpa" THEN Scale(gauge, KPA_TO_PASCAL)
    ELSE Scale(gauge, PSI_TO_PASCAL)

GaugeToDepth(gauge, density, units) ==
    Divide(ToPascal(gauge, units), density * GRAVITY)

\* pd.to_datetime(errors="coerce")
ToDatetime(raw) == IF raw >= 0 THEN raw ELSE Null

ParseTimestamps(df) == [i \in 1..Len(df) |-> [df[i] EXCEPT !.ts = ToDatetime(df[i].ts)]]

\* sort_values order on the timestamp column: NaT sorts last
TsLeq(a, b) == b = Null \/ (a # Null /\ a <= b)

Perms(n) == {p \in [1..n -> 1..n] : \A i, j \in 1..n : i # j => p[i] # p[j]}

\* sort_values (default quicksort, not stable): any ascending arrangement
SortValues(df) ==
    {[i \in 1..Len(df) |-> df[p[i]]] : p \in
        {q \in Perms(Len(df)) : \A i \in 1..Len(df) - 1 : TsLeq(df[q[i]].ts, df[q[i+1]].ts)}}

HasNullKey(df) == \E i \in 1..Len(df) : df[i].ts = Null

Max(S) == CHOOSE x \in S : \A y \in S : y <= x
Min(S) == CHOOSE x \in S : \A y \in S : x <= y

\* faulty variant: the backward search accepts a sample at any distance
AsofBackwardNoTolerance(t, right, tol) ==
    LET C == {j \in 1..Len(right) : right[j].ts <= t}
    IN IF C = {} THEN 0 ELSE Max(C)

\* merge_asof backward search: last right row at or before t, within tolerance
AsofBackward(t, right, tol) ==
    LET C == {j \in 1..Len(right) : right[j].ts <= t}
    IN IF C = {} THEN 0
       ELSE IF t - right[Max(C)].ts > tol THEN 0 ELSE Max(C)

\* merge_asof forward search: first right row at or after t, within tolerance
AsofForward(t, right, tol) ==
    LET C == {j \in 1..Len(right) : right[j].ts >= t}
    IN IF C = {} THEN 0
       ELSE IF right[Min(C)].ts - t > tol THEN 0 ELSE Min(C)

\* faulty variant: equal distances resolve to the later sample
AsofNearestLaterOnTie(t, right, tol) ==
    LET b == AsofBackward(t, right, tol)
        f == AsofForward(t, right, tol)
    IN IF b # 0 /\ f # 0
       THEN IF t - right[b].ts < right[f].ts - t THEN b ELSE f
       ELSE IF b # 0 THEN b ELSE f

\* merge_asof(direction="nearest"): index of the matched right row, 0 for none
AsofNearest(t, right, tol) ==
    LET b == AsofBackward(t, right, tol)
        f == AsofForward(t, right, tol)
    IN IF b # 0 /\ f # 0
       THEN IF t - right[b].ts <= right[f].ts - t THEN b ELSE f
       ELSE IF b # 0 THEN b ELSE f

\* one row of merge_asof's result, after the renames
MergeRow(w, right, tol, sel) ==
    LET j == AsofNearest(w.ts, right, tol)
    IN [timestamp |-> w.ts,
        water_pressure |-> w.p,
        barometric_pressure |-> IF j = 0 THEN Null ELSE right[j].p,
        water_temperature |-> IF sel.water_temp THEN w.temp ELSE Null,
        air_temperature |-> IF sel.baro_temp /\ j # 0 THEN right[j].temp ELSE Null]

MergeAsof(left, right, tol, sel) ==
    [i \in 1..Len(left) |-> MergeRow(left[i], right, tol, sel)]

\* faulty variant: the water temperature is required as well
CompleteWithTemperature(r) ==
    /\ r.timestamp # Null /\ r.water_pressure # Null /\ r.barometric_pressure # Null
    /\ r.water_temperature # Null

\* dropna(subset=[timestamp, water_pressure, barometric_pressure])
Complete(r) ==
    r.timestamp # Null /\ r.water_pressure # Null /\ r.barometric_pressure # Null

DropNa(rows) == SelectSeq(rows, Complete)

GaugeOf(r) == r.water_pressure - r.barometric_pressure

Derive(r, cfg) ==
    LET g == GaugeOf(r)
        depth == GaugeToDepth(g, cfg.fluid_density, cfg.pressure_units)
    IN [timestamp |-> r.timestamp,
        water_pressure |-> r.water_pressure,
        barometric_pressure |-> r.barometric_pressure,
        water_temperature |-> r.water_temperature,
        air_temperature |-> r.air_temperature,
        gauge_pressure |-> g,
        water_depth_m |-> depth,
        water_surface_elevation |-> AddInt(cfg.reference_datum, depth)]

MergedColumns(sel) ==
    {TIMESTAMP, WATER_PRESSURE, BARO_PRESSURE, GAUGE_PRESSURE, WATER_DEPTH, WSE}
        \cup (IF sel.water_temp THEN {WATER_TEMPERATURE} ELSE {})
        \cup (IF sel.baro_temp THEN {AIR_TEMPERATURE} ELSE {})

\* rows of compute_wse's result for sorted inputs sw, sb
WseRows(sw, sb, cfg, sel) ==
    LET kept == DropNa(MergeAsof(sw, sb, cfg.merge_tolerance, sel))
    IN [i \in 1..Len(kept) |-> Derive(kept[i], cfg)]

\* ProcessingConfig(...) as built by main() from the sidebar values
NewProcessingConfig ==
    /\ pc = "settings"
    /\ config' = [reference_datum |-> ui.reference_datum,
                  fluid_density |-> ui.fluid_density,
                  pressure_units |-> ui.pressure_units,
                  merge_tolerance |-> ui.merge_tol]
    /\ pc' = "configured"
    /\ UNCHANGED <<ui, water, baro, merged, error, history, qaqc_config,
                   flagged_shifts, flagged_temp, daily, weekly>>

ComputeWse ==
    /\ pc = "configured"
    /\ \E sw \in SortValues(ParseTimestamps(water)),
          sb \in SortValues(ParseTimestamps(baro)) :
         IF HasNullKey(sw) \/ HasNullKey(sb) \/ ~SupportedUnit(config.pressure_units)
         THEN /\ error' = "ValueError"
              /\ pc' = "failed"
              /\ UNCHANGED merged
         ELSE /\ merged' = [columns |-> MergedColumns(ui.sel),
                            rows |-> WseRows(sw, sb, config, ui.sel)]
              /\ pc' = "computed"
              /\ UNCHANGED error
    /\ UNCHANGED <<ui, water, baro, config, history, qaqc_config,
                   flagged_shifts, flagged_temp, daily, weekly>>

----------------------------------------------------------------------------
(* Specifications of compute_wse *)

Times == 0..MaxTime

Rest ==
    /\ config = NoConfig
    /\ merged = NoTable
    /\ error = "none"
    /\ history = NoTable
    /\ qaqc_config = NoQaqc
    /\ flagged_shifts = NoTable
    /\ flagged_temp = NoTable
    /\ daily = <<>>
    /\ weekly = <<>>

NextWse == NewProcessingConfig \/ ComputeWse

\* alignment of the two series: timestamps, tolerance and row order vary;
\* the water rows differ in their timestamps
InitAlign ==
    /\ pc = "settings"
    /\ ui \in [reference_datum : {0}, fluid_density : {1000}, pressure_units : {"kPa"},
               merge_tol : {0, 1},
               sel : [water_temp : {TRUE}, baro_temp : {TRUE}]]
    /\ water \in {w \in SeqsUpTo([ts : Times, p : {5}, temp : {20}], MaxWater) :
                     \A i, j \in 1..Len(w) : i # j => w[i] # w[j]}
    /\ baro \in SeqsUpTo([ts : Times, p : {Null, 1, 2}, temp : {10}], MaxBaro)
    /\ Rest

SpecAlign == InitAlign /\ [][NextWse]_vars

\* unparseable timestamp cells in either file
InitParse ==
    /\ pc = "settings"
    /\ ui \in [reference_datum : {0}, fluid_density : {1000}, pressure_units : {"kPa"},
               merge_tol : {0, 1},
               sel : [water_temp : {TRUE}, baro_temp : {TRUE}]]
    /\ water \in SeqsUpTo([ts : {0, 1, Unparseable}, p : {5}, temp : {20}], MaxWater)
    /\ baro \in SeqsUpTo([ts : {0, Unparseable}, p : {1, 2}, temp : {10}], MaxBaro)
    /\ Rest

SpecParse == InitParse /\ [][NextWse]_vars

\* missing pressure and temperature cells, temperature columns selected or not
InitDrop ==
    /\ pc = "settings"
    /\ ui \in [reference_datum : {0}, fluid_density : {1000}, pressure_units : {"kPa"},
               merge_tol : {1},
               sel : [water_temp : BOOLEAN, baro_temp : BOOLEAN]]
    /\ water \in SeqsUpTo([ts : {0, 1}, p : {Null, 5}, temp : {Null, 20}], MaxWater)
    /\ baro \in SeqsUpTo([ts : {0}, p : {Null, 1}, temp : {Null, 10}], 1)
    /\ Rest

SpecDrop == InitDrop /\ [][NextWse]_vars

\* the sidebar settings vary: datum, density, unit
InitCalc ==
    /\ pc = "settings"
    /\ ui \in [reference_datum : {0, 2}, fluid_density : {-1, 0, 1, 1000},
               pressure_units : {"kPa", "psi", "PSI", "bar"},
               merge_tol : {0},
               sel : [water_temp : {TRUE}, baro_temp : {TRUE}]]
    /\ water \in SeqsUpTo([ts : {0}, p : {Null, 1, 3}, temp : {20}], MaxWater)
    /\ baro \in SeqsUpTo([ts : {0}, p : {2}, temp : {10}], MaxBaro)
    /\ Rest

SpecCalc == InitCalc /\ [][NextWse]_vars

----------------------------------------------------------------------------
(* Claims about compute_wse *)

Abs(x) == IF x < 0 THEN -x ELSE x

Rows == Range(merged.rows)

WaterTs == {ToDatetime(water[i].ts) : i \in 1..Len(water)} \ {Null}

\* parsed barometric rows with a timestamp
BaroRows == {r \in Range(ParseTimestamps(baro)) : r.ts # Null}

WithinTol(t) == {b \in BaroRows : Abs(b.ts - t) <= config.merge_tolerance}

\* C1: a water row with no barometric sample within merge_tolerance is absent
\* from the output; no output row has a null barometric_pressure; the attached
\* barometric value is that of a sample within the tolerance.
C1_ToleranceBoundsMatch ==
    pc = "computed" =>
        /\ \A t \in WaterTs :
              WithinTol(t) = {} => ~ \E r \in Rows : r.timestamp = t
        /\ \A r \in Rows :
              /\ r.barometric_pressure # Null
              /\ \E b \in WithinTol(r.timestamp) : b.p = r.barometric_pressure

C1_Witness ==
    /\ pc = "computed"
    /\ merged.rows # <<>>
    /\ BaroRows # {}
    /\ \E t \in WaterTs : WithinTol(t) = {}

\* distance from t to the nearest barometric timestamp
NearestDist(t) == Min({Abs(b.ts - t) : b \in BaroRows})

\* barometric rows a nearest match may take: at the smallest distance, on the
\* earlier side when both sides are equally far
NearestRows(t) ==
    LET d == NearestDist(t)
        early == {b \in BaroRows : b.ts = t - d}
    IN IF early # {} THEN early ELSE {b \in BaroRows : b.ts = t + d}

\* C9: each water row is matched to the barometric row at the smallest absolute
\* time difference whatever the order of the input rows, and at equal distances
\* the earlier barometric row's values are attached.
C9_NearestEarlierOnTie ==
    pc = "computed" =>
        /\ \A r \in Rows :
              \E b \in NearestRows(r.timestamp) : b.p = r.barometric_pressure
        /\ \A i \in 1..Len(water) :
              LET t == ToDatetime(water[i].ts)
              IN (/\ t # Null /\ water[i].p # Null /\ BaroRows # {}
                  /\ NearestDist(t) <= config.merge_tolerance
                  /\ \A b \in NearestRows(t) : b.p # Null)
                 => \E r \in Rows :
                       /\ r.timestamp = t /\ r.water_pressure = water[i].p
                       /\ \E b \in NearestRows(t) : b.p = r.barometric_pressure

\* a tie between an earlier and a later sample, given later-first in the file
C9_Witness ==
    /\ pc = "computed"
    /\ Len(baro) >= 2
    /\ baro[1].ts > baro[2].ts
    /\ baro[1].p # Null /\ baro[2].p # Null /\ baro[1].p # baro[2].p
    /\ \E r \in Rows :
          /\ r.timestamp - baro[2].ts = baro[1].ts - r.timestamp
          /\ r.barometric_pressure = baro[2].p

ValidRows(df) == SelectSeq(ParseTimestamps(df), LAMBDA r : r.ts # Null)

\* C2: unparseable timestamps never make compute_wse fail; the result is the
\* one obtained with those rows removed beforehand.
C2_UnparseableOnlyDropsRows ==
    pc \in {"computed", "failed"} =>
        /\ error = "none"
        /\ merged.rows \in {WseRows(sw, sb, config, ui.sel) :
                              sw \in SortValues(ValidRows(water)),
                              sb \in SortValues(ValidRows(baro))}

\* C8 as stated: a row is reported only when the pressures and each selected
\* temperature are non-null.
C8_SelectedTemperaturePresent ==
    pc = "computed" =>
        \A r \in Rows :
            /\ r.water_pressure # Null
            /\ r.barometric_pressure # Null
            /\ ui.sel.water_temp => r.water_temperature # Null
            /\ ui.sel.baro_temp => r.air_temperature # Null

\* C8 amended: a row is reported only when timestamp, water pressure and matched
\* barometric pressure are non-null; a null temperature does not remove a row,
\* it is carried into the output as null.
C8_OnlyPressuresRequired ==
    pc = "computed" =>
        /\ \A r \in Rows :
              r.timestamp # Null /\ r.water_pressure # Null /\ r.barometric_pressure # Null
        /\ \A i \in 1..Len(water) :
              (/\ water[i].p # Null
               /\ BaroRows # {}
               /\ NearestDist(water[i].ts) <= config.merge_tolerance
               /\ \A b \in NearestRows(water[i].ts) : b.p # Null)
              => \E r \in Rows :
                    /\ r.timestamp = water[i].ts
                    /\ r.water_pressure = water[i].p
                    /\ r.water_temperature =
                          IF ui.sel.water_temp THEN water[i].temp ELSE Null

C8_Witness ==
    /\ pc = "computed"
    /\ ui.sel.water_temp
    /\ \E r \in Rows : r.water_temperature = Null
    /\ \E i \in 1..Len(water) : water[i].p = Null

\* C7: a zero or negative fluid_density is rejected when the ProcessingConfig is
\* constructed, so no depth row is ever computed with density <= 0.
C7_NonPositiveDensityRejected ==
    /\ pc = "configured" => config.fluid_density > 0
    /\ (pc = "computed" /\ merged.rows # <<>>) => config.fluid_density > 0

Factor(units) ==
    IF units \in {"kPa", "kpa", "KPA"} THEN <<1000, 0, 0, 0>>
    ELSE <<6894, 0, 757293, 168>>

\* C10: every output row has gauge = water - barometric pressure (input unit),
\* depth = factor(unit) * gauge / (density * 9.80665) and WSE = datum + depth;
\* negative gauge pressures are kept.
C10_DerivedColumns ==
    pc = "computed" =>
        /\ \A r \in Rows :
              LET g == r.water_pressure - r.barometric_pressure
                  d == Divide([i \in 1..4 |-> Factor(config.pressure_units)[i] * g],
                              config.fluid_density * GRAVITY)
              IN /\ r.gauge_pressure = g
                 /\ r.water_depth_m = d
                 /\ r.water_surface_elevation = AddInt(config.reference_datum, d)
        /\ \A i \in 1..Len(water) :
              (water[i].p # Null /\ baro # <<>>)
              => \E r \in Rows : r.gauge_pressure = water[i].p - baro[1].p

C10_Witness ==
    /\ pc = "computed"
    /\ config.pressure_units = "PSI"
    /\ config.reference_datum = 2
    /\ config.fluid_density = 1000
    /\ \E r \in Rows : r.gauge_pressure < 0
    /\ \E r \in Rows : r.gauge_pressure > 0

----------------------------------------------------------------------------
(* app.py: combining with the historical dataset *)

\* drop_duplicates(subset=[timestamp]), keep="first"
DropDuplicates(rows) ==
    LET F[i \in 0..Len(rows)] ==
            IF i = 0 THEN <<>>
            ELSE IF \E j \in 1..(i-1) : rows[j].timestamp = rows[i].timestamp
                 THEN F[i-1]
                 ELSE Append(F[i-1], rows[i])
    IN F[Len(rows)]

\* sort_values(timestamp) of a table whose timestamps are distinct
SortByTimestamp(rows) ==
    CHOOSE s \in {[i \in 1..Len(rows) |-> rows[p[i]]] : p \in Perms(Len(rows))} :
        \A i \in 1..Len(s) - 1 : TsLeq(s[i].timestamp, s[i+1].timestamp)

MergeHistory ==
    /\ pc = "computed"
    /\ IF history.rows # <<>>
       THEN merged' = [columns |-> history.columns \cup merged.columns,
                       rows |-> SortByTimestamp(DropDuplicates(history.rows \o merged.rows))]
       ELSE UNCHANGED merged
    /\ pc' = "combined"
    /\ UNCHANGED <<ui, water, baro, config, error, history, qaqc_config,
                   flagged_shifts, flagged_temp, daily, weekly>>

\* a row of a previously computed table
HistoryRow(t) ==
    Derive([timestamp |-> t, water_pressure |-> 7, barometric_pressure |-> 1,
            water_temperature |-> 20, air_temperature |-> 10],
           [reference_datum |-> 0, fluid_density |-> 1000, pressure_units |-> "kPa",
            merge_tolerance |-> 0])

InitHist ==
    /\ pc = "settings"
    /\ ui \in [reference_datum : {0}, fluid_density : {1000}, pressure_units : {"kPa"},
               merge_tol : {0},
               sel : [water_temp : {TRUE}, baro_temp : {TRUE}]]
    /\ water \in SeqsUpTo([ts : Times, p : {5}, temp : {20}], MaxWater)
    /\ baro = [i \in 1..(MaxTime + 1) |-> [ts |-> i - 1, p |-> 1, temp |-> 10]]
    /\ config = NoConfig
    /\ merged = NoTable
    /\ error = "none"
    /\ history \in {[columns |-> MergedColumns([water_temp |-> TRUE, baro_temp |-> TRUE]),
                     rows |-> [i \in 1..Len(h) |-> HistoryRow(h[i])]] :
                        h \in SeqsUpTo(Times, MaxHistory)}
    /\ qaqc_config = NoQaqc
    /\ flagged_shifts = NoTable
    /\ flagged_temp = NoTable
    /\ daily = <<>>
    /\ weekly = <<>>

NextHist == NewProcessingConfig \/ ComputeWse \/ MergeHistory

SpecHist == InitHist /\ [][NextHist]_vars

\* rows compute_wse can return for the uploaded files
NewRows ==
    UNION {Range(WseRows(sw, sb, config, ui.sel)) :
             sw \in SortValues(ParseTimestamps(water)),
             sb \in SortValues(ParseTimestamps(baro))}

\* C3: with a non-empty historical table the combined table holds each
\* timestamp once, is sorted ascending, and for a timestamp present in both
\* tables the newly computed row is the one retained (keep-last).
C3_HistoryKeepLast ==
    (pc = "combined" /\ history.rows # <<>>) =>
        /\ \A i, j \in 1..Len(merged.rows) :
              i < j => merged.rows[i].timestamp < merged.rows[j].timestamp
        /\ \A h \in Range(history.rows), n \in NewRows :
              h.timestamp = n.timestamp =>
                 \E r \in Rows : r.timestamp = n.timestamp /\ r \in NewRows

----------------------------------------------------------------------------
(* qaqc.py *)

\* depth.diff().abs(): NaN for the first row and next to a missing depth
Delta(rows, i) ==
    IF i = 1 \/ rows[i].water_depth_m = Null \/ rows[i-1].water_depth_m = Null
    THEN Null
    ELSE IF rows[i].water_depth_m >= rows[i-1].water_depth_m
         THEN rows[i].water_depth_m - rows[i-1].water_depth_m
         ELSE rows[i-1].water_depth_m - rows[i].water_depth_m

\* faulty variant: a change equal to the threshold is flagged
ShiftFlagAtThreshold(delta, threshold) == delta # Null /\ delta >= threshold

\* delta > config.shift_threshold (a comparison with NaN is False)
ShiftFlag(delta, threshold) == delta # Null /\ delta > threshold

ShiftRows(rows, threshold) ==
    LET F[i \in 0..Len(rows)] ==
            IF i = 0 THEN <<>>
            ELSE IF ShiftFlag(Delta(rows, i), threshold)
                 THEN Append(F[i-1],
                             [timestamp |-> rows[i].timestamp,
                              water_depth_m |-> rows[i].water_depth_m,
                              water_temperature |-> rows[i].water_temperature,
                              depth_change |-> Delta(rows, i)])
                 ELSE F[i-1]
    IN F[Len(rows)]

FlagShifts ==
    /\ pc = "qaqc"
    /\ IF WATER_DEPTH \notin merged.columns
       THEN /\ error' = "KeyError"
            /\ pc' = "failed"
            /\ UNCHANGED flagged_shifts
       ELSE /\ flagged_shifts' =
                   [columns |-> merged.columns \cup {"depth_change"},
                    rows |-> ShiftRows(merged.rows, qaqc_config.shift_threshold)]
            /\ pc' = "shifts"
            /\ UNCHANGED error
    /\ UNCHANGED <<ui, water, baro, config, merged, history, qaqc_config,
                   flagged_temp, daily, weekly>>

\* not config.temperature_threshold or WATER_TEMPERATURE not in df
TemperatureCheckOff(df, cfg) ==
    \/ cfg.temperature_threshold = Null
    \/ cfg.temperature_threshold = 0
    \/ WATER_TEMPERATURE \notin df.columns

TemperatureRows(rows, threshold) ==
    LET F[i \in 0..Len(rows)] ==
            IF i = 0 THEN <<>>
            ELSE IF rows[i].water_temperature # Null
                    /\ rows[i].water_temperature > threshold
                 THEN Append(F[i-1],
                             [timestamp |-> rows[i].timestamp,
                              water_depth_m |-> rows[i].water_depth_m,
                              water_temperature |-> rows[i].water_temperature,
                              temperature_excess |->
                                  rows[i].water_temperature - threshold])
                 ELSE F[i-1]
    IN F[Len(rows)]

FlagTemperatureOutliers ==
    /\ pc = "temperature"
    /\ IF TemperatureCheckOff(merged, qaqc_config)
       THEN flagged_temp' = [columns |-> merged.columns, rows |-> <<>>]
       ELSE flagged_temp' =
               [columns |-> merged.columns \cup {"temperature_excess"},
                rows |-> TemperatureRows(merged.rows, qaqc_config.temperature_threshold)]
    /\ pc' = "flagged"
    /\ UNCHANGED <<ui, water, baro, config, merged, error, history, qaqc_config,
                   flagged_shifts, daily, weekly>>

QaqcColumns == {TIMESTAMP, WATER_DEPTH, WATER_TEMPERATURE}

NoUi == [reference_datum |-> 0, fluid_density |-> 0, pressure_units |-> "",
         merge_tol |-> 0, sel |-> [water_temp |-> FALSE, baro_temp |-> FALSE]]

\* a table of depths (centimetres), in ascending or descending timestamp order
DepthTable(d, asc, cols) ==
    [columns |-> cols,
     rows |-> [i \in 1..Len(d) |->
                 [timestamp |-> IF asc THEN i ELSE Len(d) - i,
                  water_depth_m |-> d[i],
                  water_temperature |-> 20]]]

InitShift ==
    /\ pc = "qaqc"
    /\ ui = NoUi
    /\ water = <<>>
    /\ baro = <<>>
    /\ merged \in {DepthTable(d, asc, cols) :
                     d \in SeqsUpTo({Null, 100, 120, 121}, MaxRows),
                     asc \in BOOLEAN,
                     cols \in {QaqcColumns, QaqcColumns \ {WATER_DEPTH}}}
    /\ qaqc_config \in [shift_threshold : {0, 15, 20}, temperature_threshold : {Null}]
    /\ config = NoConfig
    /\ error = "none"
    /\ history = NoTable
    /\ flagged_shifts = NoTable
    /\ flagged_temp = NoTable
    /\ daily = <<>>
    /\ weekly = <<>>

SpecShift == InitShift /\ [][FlagShifts]_vars

TemperatureTable(temps, cols) ==
    [columns |-> cols,
     rows |-> [i \in 1..Len(temps) |->
                 [timestamp |-> i, water_depth_m |-> 100,
                  water_temperature |-> temps[i]]]]

InitTemp ==
    /\ pc = "temperature"
    /\ ui = NoUi
    /\ water = <<>>
    /\ baro = <<>>
    /\ merged \in {TemperatureTable(temps, cols) :
                     temps \in SeqsUpTo({Null, 0, 5, 30}, MaxRows),
                     cols \in {QaqcColumns, QaqcColumns \ {WATER_TEMPERATURE}}}
    /\ qaqc_config \in [shift_threshold : {15}, temperature_threshold : {Null, 0, 5, 25}]
    /\ config = NoConfig
    /\ error = "none"
    /\ history = NoTable
    /\ flagged_shifts = NoTable
    /\ flagged_temp = NoTable
    /\ daily = <<>>
    /\ weekly = <<>>

SpecTemp == InitTemp /\ [][FlagTemperatureOutliers]_vars

\* positions i >= 2 whose depth differs from the predecessor's by more than the
\* threshold
ShiftPositions ==
    {i \in 2..Len(merged.rows) :
        /\ merged.rows[i].water_depth_m # Null
        /\ merged.rows[i-1].water_depth_m # Null
        /\ Abs(merged.rows[i].water_depth_m - merged.rows[i-1].water_depth_m)
              > qaqc_config.shift_threshold}

\* the k-th smallest element of a set of positions
Kth(S, k) == CHOOSE i \in S : Cardinality({j \in S : j <= i}) = k

\* C4: flag_shifts returns exactly the rows at positions i >= 2 with
\* |depth[i] - depth[i-1]| > shift_threshold, in input order and without
\* re-sorting, each with depth_change equal to that difference; the first row
\* and a difference equal to the threshold are not flagged.
C4_ShiftsStrictlyAboveThreshold ==
    pc = "shifts" =>
        /\ Len(flagged_shifts.rows) = Cardinality(ShiftPositions)
        /\ \A k \in 1..Len(flagged_shifts.rows) :
              LET i == Kth(ShiftPositions, k)
                  f == flagged_shifts.rows[k]
              IN /\ f.timestamp = merged.rows[i].timestamp
                 /\ f.water_depth_m = merged.rows[i].water_depth_m
                 /\ f.water_temperature = merged.rows[i].water_temperature
                 /\ f.depth_change = Abs(merged.rows[i].water_depth_m
                                         - merged.rows[i-1].water_depth_m)

\* depths [1.00, 1.00, 1.20, 1.21] m, threshold 0.15 m, and a threshold equal
\* to the 0.20 m step
C4_Witness ==
    /\ pc = "shifts"
    /\ Len(merged.rows) = 4
    /\ \A i \in 1..4 : merged.rows[i].water_depth_m = <<100, 100, 120, 121>>[i]
    /\ merged.rows[1].timestamp > merged.rows[2].timestamp
    /\ qaqc_config.shift_threshold = 15
    /\ Len(flagged_shifts.rows) = 1
    /\ flagged_shifts.rows[1].water_depth_m = 120
    /\ flagged_shifts.rows[1].depth_change = 20

\* C5: only an absent threshold or an absent water-temperature column disables
\* flag_temperature_outliers (empty table with the input's columns); with any
\* threshold that is set, 0 included, it returns exactly the rows whose
\* temperature exceeds the threshold, with temperature_excess = value - threshold.
C5_ZeroThresholdStillChecks ==
    pc = "flagged" =>
        IF qaqc_config.temperature_threshold = Null
           \/ WATER_TEMPERATURE \notin merged.columns
        THEN flagged_temp = [columns |-> merged.columns, rows |-> <<>>]
        ELSE LET hot == {i \in 1..Len(merged.rows) :
                            /\ merged.rows[i].water_temperature # Null
                            /\ merged.rows[i].water_temperature
                                  > qaqc_config.temperature_threshold}
             IN /\ Len(flagged_temp.rows) = Cardinality(hot)
                /\ \A k \in 1..Len(flagged_temp.rows) :
                      LET i == Kth(hot, k)
                          f == flagged_temp.rows[k]
                      IN /\ f.timestamp = merged.rows[i].timestamp
                         /\ f.water_temperature = merged.rows[i].water_temperature
                         /\ f.temperature_excess =
                               merged.rows[i].water_temperature
                                  - qaqc_config.temperature_threshold

----------------------------------------------------------------------------
(* calculations.py: summarise_timeseries *)

\* calendar day of a timestamp; day 0 is a Monday
Day(ts) == ts \div TicksPerDay

\* "1W" is W-SUN: a week is labelled by the Sunday that ends it
WeekEnd(ts) == DaysPerWeek * (Day(ts) \div DaysPerWeek) + (DaysPerWeek - 1)

\* label of the resampling bin of a timestamp
Bin(ts, freq) == IF freq = "1D" THEN Day(ts) ELSE WeekEnd(ts)

\* distance between two bin labels
Step(freq) == IF freq = "1D" THEN 1 ELSE DaysPerWeek

SumSeq(s) ==
    LET F[i \in 0..Len(s)] == IF i = 0 THEN 0 ELSE F[i-1] + s[i]
    IN F[Len(s)]

\* the mean of no values: NaN
NaNMean == [sum |-> 0, n |-> 0]

\* faulty variant: a period without values is filled with zero
MeanZeroFilled(values) ==
    LET present == SelectSeq(values, LAMBDA v : v # Null)
    IN IF present = <<>> THEN [sum |-> 0, n |-> 1]
       ELSE [sum |-> SumSeq(present), n |-> Len(present)]

\* mean(): missing values are skipped, the mean of nothing is NaN;
\* [sum, n] stands for sum / n
Mean(values) ==
    LET present == SelectSeq(values, LAMBDA v : v # Null)
    IN IF present = <<>> THEN NaNMean
       ELSE [sum |-> SumSeq(present), n |-> Len(present)]

\* resample(freq): one bin per period from the first to the last timestamp
BinLabels(rows, freq) ==
    LET first == Min({Bin(rows[i].timestamp, freq) : i \in 1..Len(rows)})
        last == Max({Bin(rows[i].timestamp, freq) : i \in 1..Len(rows)})
    IN [k \in 1..((last - first) \div Step(freq) + 1) |-> first + (k - 1) * Step(freq)]

Resample(rows, freq) ==
    IF rows = <<>> THEN <<>>
    ELSE LET labels == BinLabels(rows, freq)
         IN [k \in 1..Len(labels) |->
               LET group == SelectSeq(rows, LAMBDA r : Bin(r.timestamp, freq) = labels[k])
               IN [label |-> labels[k],
                   water_depth_m |->
                       Mean([i \in 1..Len(group) |-> group[i].water_depth_m]),
                   water_temperature |->
                       Mean([i \in 1..Len(group) |-> group[i].water_temperature])]]

SummariseTimeseries ==
    /\ pc = "summary"
    /\ daily' = Resample(merged.rows, "1D")
    /\ weekly' = Resample(merged.rows, "1W")
    /\ pc' = "summarised"
    /\ UNCHANGED <<ui, water, baro, config, merged, error, history, qaqc_config,
                   flagged_shifts, flagged_temp>>

Stamps == {0, 1, 4, 5, 14, 30}

InitSumm ==
    /\ pc = "summary"
    /\ ui = NoUi
    /\ water = <<>>
    /\ baro = <<>>
    /\ merged \in {[columns |-> QaqcColumns, rows |-> r] :
                     r \in {q \in SeqsUpTo([timestamp : Stamps,
                                            water_depth_m : {100, 120},
                                            water_temperature : {Null, 20}], MaxSumRows) :
                              \A i \in 1..Len(q) - 1 : q[i].timestamp <= q[i+1].timestamp}}
    /\ qaqc_config = NoQaqc
    /\ config = NoConfig
    /\ error = "none"
    /\ history = NoTable
    /\ flagged_shifts = NoTable
    /\ flagged_temp = NoTable
    /\ daily = <<>>
    /\ weekly = <<>>

SpecSumm == InitSumm /\ [][SummariseTimeseries]_vars

\* positions of the input rows that fall in calendar day l
DayRows(l) == {i \in 1..Len(merged.rows) : merged.rows[i].timestamp \div TicksPerDay = l}

\* positions of the input rows that fall in the week ending on day l
WeekRows(l) ==
    {i \in 1..Len(merged.rows) :
        LET d == merged.rows[i].timestamp \div TicksPerDay IN l - 6 <= d /\ d <= l}

RECURSIVE SumOver(_, _)
SumOver(S, f) ==
    IF S = {} THEN 0
    ELSE LET i == CHOOSE x \in S : TRUE IN f[i] + SumOver(S \ {i}, f)

\* arithmetic mean of a column over the rows at positions S that have a value
MeanOver(S, col) ==
    LET P == {i \in S : col[i] # Null}
    IN IF P = {} THEN [sum |-> 0, n |-> 0]
       ELSE [sum |-> SumOver(P, col), n |-> Cardinality(P)]

DepthCol == [i \in 1..Len(merged.rows) |-> merged.rows[i].water_depth_m]
TempCol == [i \in 1..Len(merged.rows) |-> merged.rows[i].water_temperature]

IsMeanOf(row, S) ==
    /\ row.water_depth_m = MeanOver(S, DepthCol)
    /\ row.water_temperature = MeanOver(S, TempCol)

\* C6 as stated: a daily (weekly) row is emitted only for days (weeks) that hold
\* at least one input row, and it is the mean of the rows of that period.
C6_NoRowForSkippedPeriods ==
    pc = "summarised" =>
        /\ \A k \in 1..Len(daily) :
              DayRows(daily[k].label) # {} /\ IsMeanOf(daily[k], DayRows(daily[k].label))
        /\ \A k \in 1..Len(weekly) :
              WeekRows(weekly[k].label) # {} /\ IsMeanOf(weekly[k], WeekRows(weekly[k].label))

\* C6 amended: the daily (weekly) output has one row for every day (week) from
\* the first to the last timestamp, in ascending order; a period with input rows
\* carries the mean of their non-null values, a skipped period carries a row
\* whose numeric columns are all null (never zero).
C6_SkippedPeriodsAreNullRows ==
    (pc = "summarised" /\ merged.rows # <<>>) =>
        LET n == Len(merged.rows)
            d0 == merged.rows[1].timestamp \div TicksPerDay
            d1 == merged.rows[n].timestamp \div TicksPerDay
            w0 == 7 * (d0 \div 7) + 6
            w1 == 7 * (d1 \div 7) + 6
        IN /\ Len(daily) = d1 - d0 + 1
           /\ \A k \in 1..Len(daily) :
                 /\ daily[k].label = d0 + k - 1
                 /\ IsMeanOf(daily[k], DayRows(daily[k].label))
                 /\ DayRows(daily[k].label) = {} =>
                       daily[k].water_depth_m.n = 0 /\ daily[k].water_temperature.n = 0
           /\ Len(weekly) * 7 = w1 - w0 + 7
           /\ \A k \in 1..Len(weekly) :
                 /\ weekly[k].label = w0 + (k - 1) * 7
                 /\ IsMeanOf(weekly[k], WeekRows(weekly[k].label))
                 /\ WeekRows(weekly[k].label) = {} =>
                       weekly[k].water_depth_m.n = 0 /\ weekly[k].water_temperature.n = 0

\* a skipped day inside a week, and a skipped week
C6_Witness ==
    /\ pc = "summarised"
    /\ \E k \in 1..Len(daily) : DayRows(daily[k].label) = {}
    /\ \E k \in 1..Len(weekly) : WeekRows(weekly[k].label) = {}
    /\ \E k \in 1..Len(daily) : Cardinality(DayRows(daily[k].label)) >= 2

====
